---- MODULE Spec2Model ----
(***************************************************************************)
(* Model of the recipe API of src/main.py: two flat JSON files ("recipes", *)
(* "favorite_recipes"), the three persistence helpers (get_recipes,        *)
(* write_json, delete_from_json) and the route handlers built on them.     *)
(*                                                                         *)
(* Spec      : requests are served one after the other, every handler an   *)
(*             atomic step.                                                *)
(* ConcSpec  : NumWriters write requests are in flight at once; the        *)
(*             json.load of a helper and its write/truncate are two        *)
(*             separate steps that interleave freely (no lock in the code).*)
(***************************************************************************)
EXTENDS Integers, Sequences, FiniteSets, TLC

VARIABLES files, last, pc, req, snap, log, start

vars == <<files, last, pc, req, snap, log, start>>

(***************************************************************************)
(* Bounds of the model.                                                    *)
(***************************************************************************)
\* records held by the two files together (guards of the create handlers)
MaxRecords == 3
\* ids a client asks for in GET/DELETE paths: 1..MaxId
MaxId == 3
\* write requests in flight at once in ConcSpec
NumWriters == 2

(***************************************************************************)
(* Program constants.                                                      *)
(***************************************************************************)
MinNameLen == 1
MaxNameLen == 50

Filenames == {"recipes", "favorite_recipes"}

(***************************************************************************)
(* Values.  A JSON object / Python dict is a TLA+ record.  The value of an *)
(* image_link is tagged with its Python type: a pydantic Url object or a   *)
(* plain str.                                                              *)
(***************************************************************************)
PyStr(text) == [type |-> "str", text |-> text]
Url(text)   == [type |-> "Url", text |-> text]

NoRecord == [none |-> TRUE]
NoBody   == [kind |-> "none"]

RecipeFields == {"id", "name", "author", "image_link", "recipe"}

\* URL texts pydantic's HttpUrl accepts; it adds the path "/" to a bare host
WellFormedUrls == {"http://x/y.jpg", "http://x", "http://x/"}
HttpUrl(text) == IF text = "http://x" THEN Url("http://x/") ELSE Url(text)

\* str(value): the text of a Url object, a str unchanged
str(value) == PyStr(value.text)

(***************************************************************************)
(* Recipe (pydantic BaseModel): validation of a dict against the schema,   *)
(* the validated model, and model_dump().                                  *)
(***************************************************************************)
ValidRecipe(d) ==
    /\ RecipeFields \subseteq DOMAIN d
    /\ d.id \in Int
    /\ Len(d.name) >= MinNameLen /\ Len(d.name) <= MaxNameLen
    /\ Len(d.author) >= MinNameLen /\ Len(d.author) <= MaxNameLen
    /\ d.image_link.text \in WellFormedUrls

\* Recipe(**d).model_dump(): the five fields, image_link a Url object
model_dump(d) ==
    [id |-> d.id, name |-> d.name, author |-> d.author,
     image_link |-> HttpUrl(d.image_link.text), recipe |-> d.recipe]

\* what response_model=Recipe sends for a returned dict that validates
Serialize(d) == [model_dump(d) EXCEPT !.image_link = str(@)]

(***************************************************************************)
(* Request bodies used by the clients of the model.                        *)
(***************************************************************************)
Fifty == "01234567890123456789012345678901234567890123456789"

Spaghetti ==
    [id |-> 1, name |-> "Spaghetti", author |-> "John Doe",
     image_link |-> PyStr("http://x/y.jpg"), recipe |-> <<"boil", "drain">>]
Lasagna ==
    [id |-> 2, name |-> "Lasagna", author |-> "John Doe",
     image_link |-> PyStr("http://x"), recipe |-> <<"bake">>]
Pasta ==
    [id |-> 1, name |-> Fifty, author |-> "Jane Doe",
     image_link |-> PyStr("http://x/y.jpg"), recipe |-> <<"boil">>]
NoName      == [Spaghetti EXCEPT !.name = ""]
LongName    == [Spaghetti EXCEPT !.name = Fifty \o "0"]
BadUrl      == [Spaghetti EXCEPT !.image_link = PyStr("not a url")]
NoAuthor    == [id |-> 1, name |-> "Spaghetti",
                image_link |-> PyStr("http://x/y.jpg"), recipe |-> <<"boil">>]

SaladText  == "{\"id\": 2, \"name\": \"Salad\", \"author\": \"John Doe\", \"image_link\": \"http://x\", \"recipe\": [\"mix\"]}"
SoupText   == "{\"name\": \"Soup\", \"image_link\": \"soup.png\"}"
StewText   == "{\"id\": 3, \"name\": \"Stew\"}"
ListText   == "[1]"
BrokenText == "{"

Salad == [id |-> 2, name |-> "Salad", author |-> "John Doe",
          image_link |-> PyStr("http://x"), recipe |-> <<"mix">>]
Soup  == [name |-> "Soup", image_link |-> PyStr("soup.png")]
Stew  == [id |-> 3, name |-> "Stew"]

\* json.loads on the texts above
json_loads(text) ==
    CASE text = SaladText -> [kind |-> "dict", value |-> Salad]
      [] text = SoupText  -> [kind |-> "dict", value |-> Soup]
      [] text = StewText  -> [kind |-> "dict", value |-> Stew]
      [] text = ListText  -> [kind |-> "list", value |-> NoRecord]
      [] OTHER            -> [kind |-> "JSONDecodeError", value |-> NoRecord]

ObjectBody(d)  == [kind |-> "object", value |-> d, text |-> ""]
StringBody(t)  == [kind |-> "string", value |-> NoRecord, text |-> t]

ObjectBodies ==
    {ObjectBody(d) : d \in {Spaghetti, Lasagna, Pasta, NoName, LongName, BadUrl, NoAuthor}}
StringBodies ==
    {StringBody(t) : t \in {SaladText, SoupText, StewText, ListText, BrokenText}}
Bodies == ObjectBodies \cup StringBodies

Ids == 1 .. MaxId

(***************************************************************************)
(* Persistence helpers, as functions of the list json.load returned.       *)
(***************************************************************************)
get_recipes(fs, filename) == fs[filename]

\* write_json with the id computed from the size of the collection
write_json_count(recipes, parsed) ==
    IF parsed.kind # "dict"
    THEN [ok |-> FALSE, error |-> "TypeError", recipes |-> recipes, returned |-> NoRecord]
    ELSE IF "image_link" \notin DOMAIN parsed.value
    THEN [ok |-> FALSE, error |-> "KeyError", recipes |-> recipes, returned |-> NoRecord]
    ELSE LET recipe == [k \in DOMAIN parsed.value \cup {"id"} |->
                           IF k = "id" THEN Len(recipes) + 1
                           ELSE IF k = "image_link" THEN str(parsed.value[k])
                           ELSE parsed.value[k]]
         IN  [ok |-> TRUE, error |-> "", recipes |-> Append(recipes, recipe),
              returned |-> recipe]

\* write_json on a parsed value: the str() of image_link, the append and the
\* content written back.  A dict without "image_link" raises KeyError and a
\* value that is no dict raises TypeError, both before anything is written.
write_json(recipes, parsed) ==
    IF parsed.kind # "dict"
    THEN [ok |-> FALSE, error |-> "TypeError", recipes |-> recipes, returned |-> NoRecord]
    ELSE IF "image_link" \notin DOMAIN parsed.value
    THEN [ok |-> FALSE, error |-> "KeyError", recipes |-> recipes, returned |-> NoRecord]
    ELSE LET recipe == [parsed.value EXCEPT !.image_link = str(@)]
         IN  [ok |-> TRUE, error |-> "", recipes |-> Append(recipes, recipe),
              returned |-> recipe]

\* index of the first record the scan stops at: one without "id" (KeyError)
\* or one whose id matches; 0 when the scan runs off the end
RECURSIVE ScanFrom(_, _, _)
ScanFrom(recipes, id, idx) ==
    IF idx > Len(recipes) THEN 0
    ELSE IF "id" \notin DOMAIN recipes[idx] THEN idx
    ELSE IF recipes[idx].id = id THEN idx
    ELSE ScanFrom(recipes, id, idx + 1)

\* a scan that keeps going and stops at the last match
RECURSIVE ScanLastFrom(_, _, _)
ScanLastFrom(recipes, id, idx) ==
    IF idx < 1 THEN 0
    ELSE IF "id" \notin DOMAIN recipes[idx] THEN idx
    ELSE IF recipes[idx].id = id THEN idx
    ELSE ScanLastFrom(recipes, id, idx - 1)

ScanLast(recipes, id) == ScanLastFrom(recipes, id, Len(recipes))

Scan(recipes, id) == ScanFrom(recipes, id, 1)

\* recipes.pop(idx)
Pop(recipes, idx) ==
    [k \in 1 .. (Len(recipes) - 1) |-> IF k < idx THEN recipes[k] ELSE recipes[k + 1]]

delete_from_json(recipes, id) ==
    LET idx == Scan(recipes, id)
    IN  IF idx = 0
        THEN [ok |-> FALSE, error |-> "HTTPException", recipes |-> recipes,
              returned |-> NoRecord]
        ELSE IF "id" \notin DOMAIN recipes[idx]
        THEN [ok |-> FALSE, error |-> "KeyError", recipes |-> recipes,
              returned |-> NoRecord]
        ELSE [ok |-> TRUE, error |-> "", recipes |-> Pop(recipes, idx),
              returned |-> recipes[idx]]

(***************************************************************************)
(* Route handlers: which helper a request reaches, on which file, with     *)
(* which value.  act is "write" (write_json), "delete" (delete_from_json), *)
(* "reject" (422 from the body validation of Recipe | str) or "raise"      *)
(* (json.loads failed in the handler).                                     *)
(***************************************************************************)
Plan(act, filename, parsed, id) ==
    [act |-> act, filename |-> filename, parsed |-> parsed, id |-> id]

NoParsed == [kind |-> "none", value |-> NoRecord]

create_recipe(body) ==
    IF body.kind = "string"
    THEN LET recipe == json_loads(body.text)
         IN  IF recipe.kind = "JSONDecodeError"
             THEN Plan("raise", "", NoParsed, 0)
             ELSE Plan("write", "favorite_recipes", recipe, 0)
    ELSE IF ~ValidRecipe(body.value)
    THEN Plan("reject", "", NoParsed, 0)
    ELSE Plan("write", "recipes",
              [kind |-> "dict", value |-> model_dump(body.value)], 0)

post_favorite_recipe(body) ==
    IF body.kind = "string"
    THEN LET recipe == json_loads(body.text)
         IN  IF recipe.kind = "JSONDecodeError"
             THEN Plan("raise", "", NoParsed, 0)
             ELSE Plan("write", "favorite_recipes", recipe, 0)
    ELSE IF ~ValidRecipe(body.value)
    THEN Plan("reject", "", NoParsed, 0)
    ELSE Plan("write", "favorite_recipes",
              [kind |-> "dict", value |-> model_dump(body.value)], 0)

delete_recipe(id) == Plan("delete", "recipes", NoParsed, id)

delete_favorite_recipe(id) == Plan("delete", "favorite_recipes", NoParsed, id)

\* get_recipe: first record of recipes.json with the id, else 404
get_recipe(fs, id) ==
    LET recipes == get_recipes(fs, "recipes")
        idx     == Scan(recipes, id)
    IN  IF idx = 0
        THEN [ok |-> FALSE, error |-> "HTTPException", returned |-> NoRecord]
        ELSE IF "id" \notin DOMAIN recipes[idx]
        THEN [ok |-> FALSE, error |-> "KeyError", returned |-> NoRecord]
        ELSE [ok |-> TRUE, error |-> "", returned |-> recipes[idx]]

\* the handler of a request, by endpoint
Handler(request) ==
    CASE request.op = "create_recipe"          -> create_recipe(request.body)
      [] request.op = "post_favorite_recipe"   -> post_favorite_recipe(request.body)
      [] request.op = "delete_recipe"          -> delete_recipe(request.id)
      [] request.op = "delete_favorite_recipe" -> delete_favorite_recipe(request.id)

\* the helper a plan calls, applied to the list it loaded
Apply(plan, recipes) ==
    IF plan.act = "write"
    THEN write_json(recipes, plan.parsed)
    ELSE delete_from_json(recipes, plan.id)

(***************************************************************************)
(* What the client gets.  status/detail are the HTTP status and the error  *)
(* behind it, returned is the value the handler returned, response the     *)
(* body sent (response_model=Recipe re-validates and serializes it).       *)
(***************************************************************************)
Outcome(op, id, body, file, before, status, detail, returned, response) ==
    [op |-> op, id |-> id, body |-> body, file |-> file, before |-> before,
     status |-> status, detail |-> detail, returned |-> returned,
     response |-> response]

NoOutcome == Outcome("none", 0, NoBody, "", <<>>, 0, "", NoRecord, NoRecord)

\* status of a failed helper call
ErrorStatus(error) == IF error = "HTTPException" THEN 404 ELSE 500
ErrorDetail(error) == IF error = "HTTPException" THEN "Recipe not found" ELSE error

TotalRecords == Len(files["recipes"]) + Len(files["favorite_recipes"])

Writers == 1 .. NumWriters

NoRequest == [op |-> "none", id |-> 0, body |-> NoBody]

ConcIdle ==
    /\ pc = [w \in Writers |-> "done"]
    /\ req = [w \in Writers |-> NoRequest]
    /\ snap = [w \in Writers |-> <<>>]
    /\ log = <<>>

Init ==
    /\ files = [f \in Filenames |-> <<>>]
    /\ last = NoOutcome
    /\ start = files
    /\ ConcIdle

\* GET /recipe/all
GetAllRecipes ==
    /\ last' = Outcome("get_all_recipes", 0, NoBody, "recipes", files["recipes"],
                       200, "", get_recipes(files, "recipes"),
                       get_recipes(files, "recipes"))
    /\ UNCHANGED <<files, pc, req, snap, log, start>>

\* GET /recipe/favorites/all
GetAllFavoriteRecipes ==
    /\ last' = Outcome("get_all_favorite_recipes", 0, NoBody, "favorite_recipes",
                       files["favorite_recipes"], 200, "",
                       get_recipes(files, "favorite_recipes"),
                       get_recipes(files, "favorite_recipes"))
    /\ UNCHANGED <<files, pc, req, snap, log, start>>

\* GET /recipe/{id}
GetRecipe(id) ==
    /\ LET r == get_recipe(files, id)
       IN  last' = IF r.ok
                   THEN Outcome("get_recipe", id, NoBody, "recipes", files["recipes"],
                                200, "", r.returned, Serialize(r.returned))
                   ELSE Outcome("get_recipe", id, NoBody, "recipes", files["recipes"],
                                ErrorStatus(r.error), ErrorDetail(r.error),
                                NoRecord, NoRecord)
    /\ UNCHANGED <<files, pc, req, snap, log, start>>

\* a handler that ends before it opens a file
Refused(op, body, plan) ==
    /\ last' = IF plan.act = "reject"
               THEN Outcome(op, 0, body, "", <<>>, 422, "RequestValidationError",
                            NoRecord, NoRecord)
               ELSE Outcome(op, 0, body, "", <<>>, 500, "JSONDecodeError",
                            NoRecord, NoRecord)
    /\ UNCHANGED files

\* POST /recipe/new (response_model=Recipe, 201)
CreateRecipe(body) ==
    /\ TotalRecords < MaxRecords
    /\ LET plan == create_recipe(body)
       IN  IF plan.act # "write"
           THEN Refused("create_recipe", body, plan)
           ELSE LET before == get_recipes(files, plan.filename)
                    r      == write_json(before, plan.parsed)
                IN  /\ files' = [files EXCEPT ![plan.filename] = r.recipes]
                    /\ last' =
                         IF ~r.ok
                         THEN Outcome("create_recipe", 0, body, plan.filename, before,
                                      ErrorStatus(r.error), ErrorDetail(r.error),
                                      NoRecord, NoRecord)
                         ELSE IF ~ValidRecipe(r.returned)
                         THEN Outcome("create_recipe", 0, body, plan.filename, before,
                                      500, "ResponseValidationError",
                                      r.returned, NoRecord)
                         ELSE Outcome("create_recipe", 0, body, plan.filename, before,
                                      201, "", r.returned, Serialize(r.returned))
    /\ UNCHANGED <<pc, req, snap, log, start>>

\* POST /recipe/favorites/new (no response_model, 201)
PostFavoriteRecipe(body) ==
    /\ TotalRecords < MaxRecords
    /\ LET plan == post_favorite_recipe(body)
       IN  IF plan.act # "write"
           THEN Refused("post_favorite_recipe", body, plan)
           ELSE LET before == get_recipes(files, plan.filename)
                    r      == write_json(before, plan.parsed)
                IN  /\ files' = [files EXCEPT ![plan.filename] = r.recipes]
                    /\ last' =
                         IF ~r.ok
                         THEN Outcome("post_favorite_recipe", 0, body, plan.filename,
                                      before, ErrorStatus(r.error),
                                      ErrorDetail(r.error), NoRecord, NoRecord)
                         ELSE Outcome("post_favorite_recipe", 0, body, plan.filename,
                                      before, 201, "", r.returned, r.returned)
    /\ UNCHANGED <<pc, req, snap, log, start>>

\* the two DELETE handlers (204, the returned record is not sent)
Delete(op, plan) ==
    LET before == get_recipes(files, plan.filename)
        r      == delete_from_json(before, plan.id)
    IN  /\ files' = [files EXCEPT ![plan.filename] = r.recipes]
        /\ last' = IF r.ok
                   THEN Outcome(op, plan.id, NoBody, plan.filename, before,
                                204, "", r.returned, NoRecord)
                   ELSE Outcome(op, plan.id, NoBody, plan.filename, before,
                                ErrorStatus(r.error), ErrorDetail(r.error),
                                NoRecord, NoRecord)

\* DELETE /recipe/{id}
DeleteRecipe(id) ==
    /\ Delete("delete_recipe", delete_recipe(id))
    /\ UNCHANGED <<pc, req, snap, log, start>>

\* DELETE /recipe/favorites/delete/{id}
DeleteFavoriteRecipe(id) ==
    /\ Delete("delete_favorite_recipe", delete_favorite_recipe(id))
    /\ UNCHANGED <<pc, req, snap, log, start>>

Next ==
    \/ GetAllRecipes
    \/ GetAllFavoriteRecipes
    \/ \E id \in Ids : GetRecipe(id)
    \/ \E body \in Bodies : CreateRecipe(body)
    \/ \E body \in Bodies : PostFavoriteRecipe(body)
    \/ \E id \in Ids : DeleteRecipe(id)
    \/ \E id \in Ids : DeleteFavoriteRecipe(id)

Spec == Init /\ [][Next]_vars

(***************************************************************************)
(* Concurrent write requests.  The handlers are plain def functions, which *)
(* the server runs on worker threads; nothing locks the file.  A request   *)
(* goes open -> loaded -> done: ConcLoad is the json.load of the helper,   *)
(* ConcRewrite its seek/write/truncate, ConcRaise the exception it raises  *)
(* instead of writing, ConcRefuse a handler that ends before the helper.   *)
(***************************************************************************)
Request(op, id, body) == [op |-> op, id |-> id, body |-> body]

ConcRequests ==
    { Request("create_recipe", 0, ObjectBody(Spaghetti)),
      Request("create_recipe", 0, ObjectBody(Lasagna)),
      Request("create_recipe", 0, ObjectBody(NoName)),
      Request("create_recipe", 0, StringBody(SaladText)),
      Request("post_favorite_recipe", 0, ObjectBody(Pasta)),
      Request("delete_recipe", 1, NoBody),
      Request("delete_recipe", 2, NoBody),
      Request("delete_favorite_recipe", 1, NoBody) }

\* contents the recipes file has after zero, one or two sequential creates
StartFiles ==
    { [f \in Filenames |-> <<>>],
      [f \in Filenames |-> IF f = "recipes" THEN <<Serialize(Spaghetti)>> ELSE <<>>],
      [f \in Filenames |-> IF f = "recipes"
                           THEN <<Serialize(Spaghetti), Serialize(Lasagna)>>
                           ELSE <<>>] }

Event(w, ev) == [w |-> w, ev |-> ev]

ConcInit ==
    /\ files \in StartFiles
    /\ start = files
    /\ last = NoOutcome
    /\ req \in [Writers -> ConcRequests]
    /\ pc = [w \in Writers |-> "open"]
    /\ snap = [w \in Writers |-> <<>>]
    /\ log = <<>>

ConcRefuse(w) ==
    /\ pc[w] = "open"
    /\ Handler(req[w]).act \in {"reject", "raise"}
    /\ pc' = [pc EXCEPT ![w] = "done"]
    /\ log' = Append(log, Event(w, "refuse"))
    /\ UNCHANGED <<files, last, req, snap, start>>

ConcLoad(w) ==
    /\ pc[w] = "open"
    /\ Handler(req[w]).act \in {"write", "delete"}
    /\ snap' = [snap EXCEPT ![w] = get_recipes(files, Handler(req[w]).filename)]
    /\ pc' = [pc EXCEPT ![w] = "loaded"]
    /\ log' = Append(log, Event(w, "read"))
    /\ UNCHANGED <<files, last, req, start>>

\* a rewrite that applies the change to the content the file holds now
ConcRewriteFresh(w) ==
    /\ pc[w] = "loaded"
    /\ LET plan == Handler(req[w])
           r    == Apply(plan, get_recipes(files, plan.filename))
       IN  /\ r.ok
           /\ files' = [files EXCEPT ![plan.filename] = r.recipes]
    /\ pc' = [pc EXCEPT ![w] = "done"]
    /\ log' = Append(log, Event(w, "rewrite"))
    /\ UNCHANGED <<last, req, snap, start>>

ConcRewrite(w) ==
    /\ pc[w] = "loaded"
    /\ LET plan == Handler(req[w])
           r    == Apply(plan, snap[w])
       IN  /\ r.ok
           /\ files' = [files EXCEPT ![plan.filename] = r.recipes]
    /\ pc' = [pc EXCEPT ![w] = "done"]
    /\ log' = Append(log, Event(w, "rewrite"))
    /\ UNCHANGED <<last, req, snap, start>>

ConcRaise(w) ==
    /\ pc[w] = "loaded"
    /\ ~Apply(Handler(req[w]), snap[w]).ok
    /\ pc' = [pc EXCEPT ![w] = "done"]
    /\ log' = Append(log, Event(w, "raise"))
    /\ UNCHANGED <<files, last, req, snap, start>>

ConcNext ==
    \/ \E w \in Writers : ConcRefuse(w)
    \/ \E w \in Writers : ConcLoad(w)
    \/ \E w \in Writers : ConcRewrite(w)
    \/ \E w \in Writers : ConcRaise(w)

ConcSpec == ConcInit /\ [][ConcNext]_vars

(***************************************************************************)
(* Properties.                                                             *)
(***************************************************************************)
CreateOps == {"create_recipe", "post_favorite_recipe"}
DeleteOps == {"delete_recipe", "delete_favorite_recipe"}

HasId(d) == "id" \in DOMAIN d

\* the ids of the records of a list are pairwise distinct
DistinctIds(recipes) ==
    \A i, j \in 1 .. Len(recipes) :
        (i # j /\ HasId(recipes[i]) /\ HasId(recipes[j]))
            => recipes[i].id # recipes[j].id

\* the dict the client sent in a body
Sent(body) == IF body.kind = "string" THEN json_loads(body.text).value ELSE body.value

\* the handler of the last request stored a record
Stored(o) == o.op \in CreateOps /\ o.status \in {201, 500} /\ o.file # ""
             /\ o.detail \in {"", "ResponseValidationError"}

\* C1: a create on recipes (POST /recipe/new, 201) followed immediately by
\* GET /recipe/{id of the created record} answers 200 with a record equal to
\* the one the create answered with.
C1_CreateThenGet ==
    [][ ( /\ last.op = "create_recipe" /\ last.status = 201
          /\ last.file = "recipes"
          /\ last'.op = "get_recipe"
          /\ last'.id = last.response.id )
        => ( last'.status = 200 /\ last'.response = last.response ) ]_vars

\* C2: a successful DELETE /recipe/{id} followed immediately by
\* GET /recipe/{id} answers 404 "Recipe not found".
C2_DeleteThenGet ==
    [][ ( /\ last.op = "delete_recipe" /\ last.status = 204
          /\ last'.op = "get_recipe"
          /\ last'.id = last.id )
        => ( last'.status = 404 /\ last'.detail = "Recipe not found" ) ]_vars

C4_LengthByOne ==
    [][ /\ (last'.op = "create_recipe" /\ last'.status = 201)
            => Len(files'["recipes"]) = Len(files["recipes"]) + 1
        /\ (last'.op = "post_favorite_recipe" /\ last'.status = 201)
            => Len(files'["favorite_recipes"]) = Len(files["favorite_recipes"]) + 1
        /\ (last'.op = "delete_recipe" /\ last'.status = 204)
            => Len(files'["recipes"]) = Len(files["recipes"]) - 1
        /\ (last'.op = "delete_favorite_recipe" /\ last'.status = 204)
            => Len(files'["favorite_recipes"]) = Len(files["favorite_recipes"]) - 1
      ]_vars

\* C5: a request to POST /recipe/new leaves favorite_recipes unchanged and, when
\* it stores a record, appends it to recipes; a request to a
\* /recipe/favorites/... endpoint leaves recipes unchanged.
C5_OneCollection ==
    [][ /\ last'.op = "create_recipe"
            => /\ files'["favorite_recipes"] = files["favorite_recipes"]
               /\ Stored(last')
                    => files'["recipes"] = Append(files["recipes"], last'.returned)
        /\ last'.op \in {"post_favorite_recipe", "delete_favorite_recipe",
                         "get_all_favorite_recipes"}
            => files'["recipes"] = files["recipes"]
      ]_vars

\* C6: within each collection the ids of the stored records are pairwise
\* distinct in every state reached by sequential requests.
C6_UniqueIds == \A f \in Filenames : DistinctIds(files[f])

\* C7: when every one of the NumWriters concurrent requests is a valid create
\* on recipes and recipes started empty, then once all are done recipes holds
\* NumWriters records with pairwise distinct ids.
C7_ConcurrentCreates ==
    ( /\ start["recipes"] = <<>>
      /\ \A w \in Writers :
            /\ pc[w] = "done"
            /\ req[w].op = "create_recipe"
            /\ Handler(req[w]).act = "write"
            /\ Handler(req[w]).filename = "recipes" )
    => ( /\ Len(files["recipes"]) = NumWriters
         /\ DistinctIds(files["recipes"]) )

\* C8: a delete on a collection holding no record with the id answers 404
\* "Recipe not found" and leaves the file as it was; a delete has only two
\* outcomes, 204 with the record removed or 404.
C8_DeleteNotFound ==
    last.op \in DeleteOps =>
        /\ (\A i \in 1 .. Len(last.before) :
                ~(HasId(last.before[i]) /\ last.before[i].id = last.id))
            => /\ last.status = 404
               /\ last.detail = "Recipe not found"
               /\ files[last.file] = last.before
        /\ last.status \in {204, 404}

\* position of a writer's event in the log, 0 when it has not happened
Pos(w, ev) ==
    IF \E i \in 1 .. Len(log) : log[i] = Event(w, ev)
    THEN CHOOSE i \in 1 .. Len(log) : log[i] = Event(w, ev)
    ELSE 0

\* a and b wrote the same file, b read after a's read and before a's rewrite,
\* both have rewritten, and no other writer rewrote that file since a's read
Overlap(a, b) ==
    /\ a # b
    /\ Pos(a, "read") > 0
    /\ Pos(b, "read") > Pos(a, "read")
    /\ Pos(a, "rewrite") > Pos(b, "read")
    /\ Pos(b, "rewrite") > 0
    /\ Handler(req[a]).filename = Handler(req[b]).filename
    /\ \A c \in Writers \ {a, b} :
          ~( /\ Pos(c, "rewrite") > Pos(a, "read")
             /\ Handler(req[c]).filename = Handler(req[a]).filename )

\* C9 as stated: after such an overlap the file holds the content read with
\* the second writer's change only.
C9_SecondWriterSurvives ==
    \A a, b \in Writers :
        Overlap(a, b) =>
            files[Handler(req[a]).filename] = Apply(Handler(req[b]), snap[b]).recipes

LastRewriter(a, b) == IF Pos(a, "rewrite") > Pos(b, "rewrite") THEN a ELSE b

\* C9 amended: after such an overlap both writers read the same content and
\* the file holds that content with only the change of the writer that
\* rewrote last, be it the first reader or the second.
C9_LastRewriterSurvives ==
    \A a, b \in Writers :
        Overlap(a, b) =>
            /\ snap[a] = snap[b]
            /\ files[Handler(req[a]).filename] =
                  Apply(Handler(req[LastRewriter(a, b)]), snap[a]).recipes

\* an overlap after which the first reader's change is the one that stayed
C9_Witness ==
    \E a, b \in Writers :
        /\ Overlap(a, b)
        /\ Pos(a, "rewrite") > Pos(b, "rewrite")
        /\ files[Handler(req[a]).filename] = Apply(Handler(req[a]), snap[a]).recipes
        /\ files[Handler(req[a]).filename] # Apply(Handler(req[b]), snap[b]).recipes

\* C10: a successful delete removes exactly one record, the first in file
\* order whose id is the given id, returns it, and leaves all other records,
\* later ones with the same id included, in their order.
C10_DeleteFirstMatch ==
    (last.op \in DeleteOps /\ last.status = 204) =>
        \E i \in 1 .. Len(last.before) :
            /\ HasId(last.before[i]) /\ last.before[i].id = last.id
            /\ \A j \in 1 .. (i - 1) : last.before[j].id # last.id
            /\ last.returned = last.before[i]
            /\ files[last.file] =
                  SubSeq(last.before, 1, i - 1)
                     \o SubSeq(last.before, i + 1, Len(last.before))

\* a delete from three records, the last two with the id: the second is
\* removed, the first and the third stay
C10_Witness ==
    /\ last.op \in DeleteOps /\ last.status = 204
    /\ Len(last.before) = 3
    /\ last.before[1].id # last.id
    /\ last.before[2].id = last.id
    /\ last.before[3].id = last.id
    /\ last.before[3] # last.before[2]
    /\ files[last.file] = <<last.before[1], last.before[3]>>

====
